---- MODULE Spec2Model ----
(***************************************************************************)
(* Model of eth-npg: the network-parameter validation of builder.rs, the   *)
(* committee assignment of Generator::get_msg / get_attestations and the   *)
(* Stream implementation (poll_next) of lib.rs.                            *)
(*                                                                         *)
(* usize and Slot values that enter a wrapping addition are modelled as    *)
(* exact 64-bit unsigned integers, written as four base-2^16 digits (least *)
(* significant first), so that overflowing_add wraps at 2^64 as it does on *)
(* a 64-bit target.  The builder validates its settings as 64-bit values  *)
(* too; the parameters a Generator computes with and the validator ids    *)
(* are small naturals.                                                     *)
(***************************************************************************)
EXTENDS Integers, Sequences, FiniteSets, TLC

\* ------------------------------------------------------------------ bounds
\* Largest value tried for each builder setting, and for total_validators.
MaxSlotsPerEpoch == 3
MaxSubnets == 2
MaxSubnetSize == 2
MaxAggregators == 2
MaxValidators == 4
\* Number of nodes of the network built by setup_network.
MaxNodes == 2
\* Slots queried after each base slot (genesis, a sync period start, the top
\* of the u64 range).
MaxSlotOffset == 3
\* Sync-committee periods visited.
MaxPeriod == 1
\* The polled Generator: validators it holds at most, the size of the
\* network it is part of, and how long the clock runs, in thirds of a slot.
MaxHeld == 2
StreamValidators == 3
MaxTime == 7
\* Largest small value tried for a setting validated over the 64-bit range.
MaxWideSetting == 1
MaxRelativeSlots == 4
MaxCommittees == 5
MaxExcess == 3

\* --------------------------------------------------------------- constants
EPOCHS_PER_SYNC_COMMITTEE_PERIOD == 256
DEFAULT_ATTESTATION_SUBNETS == 64
DEFAULT_TARGET_AGGREGATORS == 16
DEFAULT_SYNC_COMMITTEE_SIZE == 512
DEFAULT_SYNC_COMMITTEE_SUBNETS == 4
DEFAULT_SLOTS_PER_EPOCH == 32

\* The MsgType enum, in the order MsgType::iter() yields the variants.
MsgType ==
  << "BeaconBlock", "AggregateAndProofAttestation", "Attestation",
     "SignedContributionAndProof", "SyncCommitteeMessage" >>

MsgTypes == { MsgType[i] : i \in 1..Len(MsgType) }

\* ------------------------------------------------------ 64-bit arithmetic
Digit == 2^16

\* A small natural as a u64.
ToU64(n) == << n % Digit, (n \div Digit) % Digit, 0, 0 >>

\* usize::MAX - n, for n < 2^16.
U64MaxMinus(n) == << Digit - 1 - n, Digit - 1, Digit - 1, Digit - 1 >>

\* usize::overflowing_add: << the wrapped sum, whether it overflowed >>.
overflowing_add(a, b) ==
  LET s1 == a[1] + b[1]
      s2 == a[2] + b[2] + (s1 \div Digit)
      s3 == a[3] + b[3] + (s2 \div Digit)
      s4 == a[4] + b[4] + (s3 \div Digit)
  IN  << << s1 % Digit, s2 % Digit, s3 % Digit, s4 % Digit >>, s4 >= Digit >>

\* a % m for a u64 a and a small positive m.
U64Mod(a, m) ==
  LET r4 == a[4] % m
      r3 == (r4 * Digit + a[3]) % m
      r2 == (r3 * Digit + a[2]) % m
  IN  (r2 * Digit + a[1]) % m

\* a / m for a u64 a and a small positive m, as a u64.
U64Div(a, m) ==
  LET r4 == a[4] % m
      n3 == r4 * Digit + a[3]
      n2 == (n3 % m) * Digit + a[2]
      n1 == (n2 % m) * Digit + a[1]
  IN  << n1 \div m, n2 \div m, n3 \div m, a[4] \div m >>

\* Slot::epoch: the slot number divided by slots_per_epoch.
SlotEpoch(slot, slots_per_epoch) == U64Div(slot, slots_per_epoch)

\* a - n for a u64 a and a small n <= a.
U64SubSmall(a, n) ==
  LET d1 == a[1] - n
      b1 == IF d1 < 0 THEN 1 ELSE 0
      d2 == a[2] - b1
      b2 == IF d2 < 0 THEN 1 ELSE 0
      d3 == a[3] - b2
      b3 == IF d3 < 0 THEN 1 ELSE 0
  IN  << d1 + b1 * Digit, d2 + b2 * Digit, d3 + b3 * Digit, a[4] - b3 >>

\* a > b for two u64.
U64Gt(a, b) ==
  \E i \in 1..4 : a[i] > b[i] /\ \A j \in (i + 1)..4 : a[j] = b[j]

\* The eight bytes of a u64, least significant first.
U64Bytes(a) ==
  [ i \in 1..8 |-> IF i % 2 = 1 THEN a[(i + 1) \div 2] % 256
                               ELSE a[i \div 2] \div 256 ]

\* The sum of the byte products of a and b that fall in byte k of a * b.
ColumnSum(a, b, k) ==
  LET term(i) == IF k + 1 - i \in 1..8 THEN a[i] * b[k + 1 - i] ELSE 0
  IN  term(1) + term(2) + term(3) + term(4)
        + term(5) + term(6) + term(7) + term(8)

\* The sixteen bytes of the full product of two u64 (given by their bytes),
\* least significant first, from byte k on.
RECURSIVE ProductBytes(_, _, _, _)
ProductBytes(a, b, k, carry) ==
  IF k > 16 THEN << >>
  ELSE LET column == ColumnSum(a, b, k) + carry
       IN  << column % 256 >> \o ProductBytes(a, b, k + 1, column \div 256)

\* The full product of two u64: its low 64 bits as a u64, and whether any
\* higher bit is set.
U64Product(a, b) ==
  LET bytes == ProductBytes(U64Bytes(a), U64Bytes(b), 1, 0)
  IN  [ low |-> [ i \in 1..4 |-> bytes[2 * i - 1] + 256 * bytes[2 * i] ],
        overflows |-> \E i \in 9..16 : bytes[i] # 0 ]

\* A u64 below 2^31 as a natural.
U64Small(a) == a[1] + a[2] * Digit

\* ---------------------------------------------------------------- builder
None == [some |-> FALSE]
Some(v) == [some |-> TRUE, val |-> v]
unwrap_or(opt, default) == IF opt.some THEN opt.val ELSE default

Ok(v) == [ok |-> TRUE, val |-> v]
Err(e) == [ok |-> FALSE, err |-> e]

\* Mutant: the product wraps around 2^64.
wrapping_mul(a, b) == Some(U64Product(a, b).low)

\* usize::checked_mul: None when the product does not fit 64 bits.
checked_mul(a, b) ==
  LET product == U64Product(a, b)
  IN  IF product.overflows THEN None ELSE Some(product.low)

\* GeneratorParams::new on 64-bit values: the chain of checks, first failure
\* wins.
GeneratorParams_new(slots_per_epoch, attestation_subnets, sync_subnet_size, sync_committee_subnets, target_aggregators, total_validators) ==
  IF slots_per_epoch = ToU64(0)
    THEN Err("slots_per_epoch should be positive")
  ELSE IF total_validators = ToU64(0)
    THEN Err("total_validators must be positive")
  ELSE IF attestation_subnets = ToU64(0)
    THEN Err("attestation_subnets must be positive")
  ELSE IF sync_committee_subnets = ToU64(0)
    THEN Err("sync_committee_subnets must be positive")
  ELSE IF ~checked_mul(sync_subnet_size, sync_committee_subnets).some
    THEN Err("sync committee size is too large")
  ELSE IF U64Gt(checked_mul(sync_subnet_size, sync_committee_subnets).val,
                total_validators)
    THEN Err("not enought validators to reach the sync committees size")
  ELSE IF ~checked_mul(target_aggregators, attestation_subnets).some
    THEN Err("total attestation aggregators across the network is too large")
  ELSE IF U64Gt(checked_mul(target_aggregators, attestation_subnets).val,
                total_validators)
    THEN Err("not enough validators to reach the target aggregators in the attestation subnets")
  ELSE IF ~checked_mul(target_aggregators, sync_committee_subnets).some
    THEN Err("target sync aggregators across the network is too large")
  ELSE IF U64Gt(checked_mul(target_aggregators, sync_committee_subnets).val,
                total_validators)
    THEN Err("not enough validators to reach the target aggregators in the sync committees")
  ELSE Ok([ slots_per_epoch |-> slots_per_epoch,
            attestation_subnets |-> attestation_subnets,
            sync_subnet_size |-> sync_subnet_size,
            sync_committee_subnets |-> sync_committee_subnets,
            target_aggregators |-> target_aggregators,
            total_validators |-> total_validators ])

\* GeneratorBuilder::build_params on a builder b (a record of Options of
\* 64-bit values).
build_params(b) ==
  IF ~b.total_validators.some THEN Err("total_validators not set")
  ELSE GeneratorParams_new(
         unwrap_or(b.slots_per_epoch, ToU64(DEFAULT_SLOTS_PER_EPOCH)),
         unwrap_or(b.attestation_subnets, ToU64(DEFAULT_ATTESTATION_SUBNETS)),
         unwrap_or(b.sync_subnet_size, ToU64(DEFAULT_SYNC_COMMITTEE_SIZE)),
         unwrap_or(b.sync_committee_subnets, ToU64(DEFAULT_SYNC_COMMITTEE_SUBNETS)),
         unwrap_or(b.target_aggregators, ToU64(DEFAULT_TARGET_AGGREGATORS)),
         b.total_validators.val)

\* GeneratorParams::build: the Generator holding `validators`, or a failure.
build(p, validators) ==
  IF \E val_id \in validators : val_id >= p.total_validators
  THEN Err("validator ids must go up to total_validators - 1")
  ELSE Ok([ params |-> p, validators |-> validators ])

\* ------------------------------------------------------------- assignment
\* Attestation: the test of lib.rs line 80.
is_attester(p, val_id, slot) ==
  U64Mod(overflowing_add(ToU64(val_id), slot)[1], p.slots_per_epoch) = 0

\* Attestation: the committee of lib.rs lines 76-78.
attestation_committee(p, val_id, epoch) ==
  U64Mod(overflowing_add(ToU64(val_id), epoch)[1], p.attestation_subnets)

\* Generator::get_attestations: the (val_id, committee) pairs of a slot.
get_attestations(g, current_slot) ==
  LET slot == current_slot
      epoch == SlotEpoch(current_slot, g.params.slots_per_epoch)
  IN  { << val_id, attestation_committee(g.params, val_id, epoch) >> :
          val_id \in { v \in g.validators : is_attester(g.params, v, slot) } }

\* Mutant: the proposer is reduced modulo the number of validators the
\* Generator holds instead of total_validators.
proposer_local(g, slot) ==
  U64Mod(slot, IF g.validators = {} THEN g.params.total_validators
               ELSE Cardinality(g.validators))

\* Mutant: the proposer is taken from the epoch instead of the slot.
proposer_by_epoch(g, slot) ==
  U64Mod(SlotEpoch(slot, g.params.slots_per_epoch), g.params.total_validators)

\* BeaconBlock: the proposer of the slot.
proposer(g, slot) == U64Mod(slot, g.params.total_validators)

\* AggregateAndProofAttestation: the committee of a validator.
aggregate_committee(p, val_id, epoch) ==
  U64Mod(overflowing_add(ToU64(val_id), epoch)[1], p.attestation_subnets)

\* AggregateAndProofAttestation: idx_in_commitee of a validator.
aggregate_idx_in_commitee(p, val_id, epoch) ==
  U64Mod(overflowing_add(ToU64(val_id), epoch)[1], p.total_validators)
    \div p.attestation_subnets

\* AggregateAndProofAttestation: is_aggregator (target_aggregators > 0).
is_aggregator(p, val_id, epoch) ==
  aggregate_idx_in_commitee(p, val_id, epoch) \div p.target_aggregators = 0

\* epoch / EPOCHS_PER_SYNC_COMMITTEE_PERIOD.
sync_committee_period(epoch) == U64Div(epoch, EPOCHS_PER_SYNC_COMMITTEE_PERIOD)

\* Sync committee: shaked_val_id, back in the validator id range.
sync_shaked_val_id(p, val_id, period) ==
  U64Mod(overflowing_add(ToU64(val_id), period)[1], p.total_validators)

sync_committee_size(p) == p.sync_subnet_size * p.sync_committee_subnets

\* Sync committee: in_commitee (sync_committee_size > 0).
in_commitee(p, val_id, period) ==
  sync_shaked_val_id(p, val_id, period) \div sync_committee_size(p) = 0

\* Sync committee: the subnet of a member.
sync_committee(p, val_id, period) ==
  (sync_shaked_val_id(p, val_id, period) % sync_committee_size(p))
    % p.sync_committee_subnets

\* SignedContributionAndProof: is_aggregator of a member
\* (target_aggregators > 0).
is_sync_aggregator(p, val_id, period, slot) ==
  LET idx_in_commitee ==
        sync_shaked_val_id(p, val_id, period) % sync_committee_size(p)
      idx_in_subcommittee == idx_in_commitee \div p.sync_committee_subnets
  IN  (U64Mod(overflowing_add(ToU64(idx_in_subcommittee), slot)[1],
              p.sync_committee_subnets)
         \div p.target_aggregators) = 0

\* Whether Generator::get_msg panics with a division or remainder by zero.
\* The closures run once per held validator, so an empty validator set
\* evaluates no division.
get_msg_panics(g, current_slot, kind) ==
  LET p == g.params
      epoch == SlotEpoch(current_slot, p.slots_per_epoch)
      period == sync_committee_period(epoch)
  IN  CASE kind = "BeaconBlock" -> p.total_validators = 0
        [] kind = "AggregateAndProofAttestation" ->
             /\ g.validators # {}
             /\ \/ p.attestation_subnets = 0
                \/ p.total_validators = 0
                \/ p.target_aggregators = 0
        [] kind = "Attestation" ->
             /\ g.validators # {}
             /\ (p.attestation_subnets = 0 \/ p.slots_per_epoch = 0)
        [] kind = "SyncCommitteeMessage" ->
             /\ g.validators # {}
             /\ \/ p.total_validators = 0
                \/ sync_committee_size(p) = 0
                \/ p.sync_committee_subnets = 0
        [] kind = "SignedContributionAndProof" ->
             /\ g.validators # {}
             /\ \/ p.total_validators = 0
                \/ sync_committee_size(p) = 0
                \/ p.sync_committee_subnets = 0
                \/ /\ p.target_aggregators = 0
                   /\ \E v \in g.validators : in_commitee(p, v, period)

\* The messages Generator::get_msg returns when it does not panic.
get_msg_messages(g, current_slot, kind) ==
  LET p == g.params
      slot == current_slot
      epoch == SlotEpoch(current_slot, p.slots_per_epoch)
      period == sync_committee_period(epoch)
  IN  CASE kind = "BeaconBlock" ->
             IF proposer(g, slot) \in g.validators
             THEN { [ type |-> kind, proposer |-> proposer(g, slot) ] }
             ELSE {}
        [] kind = "AggregateAndProofAttestation" ->
             { [ type |-> kind, aggregator |-> v,
                 committee |-> aggregate_committee(p, v, epoch) ] :
               v \in { w \in g.validators : is_aggregator(p, w, epoch) } }
        [] kind = "Attestation" ->
             { [ type |-> kind, attester |-> a[1], committee |-> a[2] ] :
               a \in get_attestations(g, current_slot) }
        [] kind = "SyncCommitteeMessage" ->
             { [ type |-> kind, validator |-> v,
                 committee |-> sync_committee(p, v, period) ] :
               v \in { w \in g.validators : in_commitee(p, w, period) } }
        [] kind = "SignedContributionAndProof" ->
             { [ type |-> kind, validator |-> v,
                 committee |-> sync_committee(p, v, period) ] :
               v \in { w \in g.validators :
                         /\ in_commitee(p, w, period)
                         /\ is_sync_aggregator(p, w, period, slot) } }

Panic == [ panicked |-> TRUE, msgs |-> {} ]
Returned(m) == [ panicked |-> FALSE, msgs |-> m ]

\* Generator::get_msg: the messages of one kind for a slot, or a panic.
get_msg(g, current_slot, kind) ==
  IF get_msg_panics(g, current_slot, kind) THEN Panic
  ELSE Returned(get_msg_messages(g, current_slot, kind))

\* ---------------------------------------------------------- SlotGenerator
RECURSIVE gcd(_, _)
gcd(a, b) == IF b > 0 THEN gcd(b, a % b) ELSE a

\* SlotGenerator::new.
SlotGenerator_new(slots_per_epoch, attestation_subnets, sync_subnet_size, sync_committee_subnets, target_aggregators, total_validators) ==
  [ slots_per_epoch |-> slots_per_epoch,
    attestation_subnets |-> attestation_subnets,
    sync_subnet_size |-> sync_subnet_size,
    sync_committee_subnets |-> sync_committee_subnets,
    target_aggregators |-> target_aggregators,
    total_validators |-> total_validators,
    att_subnets_is_relative |-> gcd(attestation_subnets, slots_per_epoch) = 1 ]

\* SlotGenerator::get_blocks: the proposer of the slot if `validators` holds
\* it.
get_blocks(sg, slot, validators) ==
  LET proposer_id == U64Mod(slot, sg.total_validators)
  IN  IF proposer_id \in validators THEN Some(proposer_id) ELSE None

\* SlotGenerator::get_attestations: the (val_id, subnet) pairs of a slot.
SlotGenerator_get_attestations(sg, slot, validators) ==
  LET epoch == SlotEpoch(slot, sg.slots_per_epoch)
      shaked_val_id(val_id) ==
        U64Mod(overflowing_add(ToU64(val_id), epoch)[1], sg.total_validators)
      subnet(val_id) == shaked_val_id(val_id) % sg.attestation_subnets
      attests(val_id) ==
        (shaked_val_id(val_id)
           + (IF sg.att_subnets_is_relative THEN 0
              ELSE shaked_val_id(val_id) \div sg.attestation_subnets))
          % sg.slots_per_epoch
        = U64Mod(slot, sg.slots_per_epoch)
  IN  { << val_id, subnet(val_id) >> :
          val_id \in { v \in validators : attests(v) } }

\* ------------------------------------------------------------ the network
\* Epoch::slot_iter as the test uses it: the slots of the epoch of `slot`, in
\* order, ending early where the slot number would pass usize::MAX.
slot_iter(slot, slots_per_epoch) ==
  LET start == U64SubSmall(slot, U64Mod(slot, slots_per_epoch))
      exists(i) == ~overflowing_add(start, ToU64(i))[2]
      count == Cardinality({ i \in 0..(slots_per_epoch - 1) : exists(i) })
  IN  [ i \in 1..count |-> overflowing_add(start, ToU64(i - 1))[1] ]

\* The get_msgs closure of the test: the messages of every node, as one set;
\* a panic of any node's get_msg ends the call.
get_msgs(network, msg_type, slot) ==
  IF \E i \in 1..Len(network) : get_msg(network[i], slot, msg_type).panicked
  THEN Panic
  ELSE Returned(UNION { get_msg(network[i], slot, msg_type).msgs :
                          i \in 1..Len(network) })

\* The attestations of every node for a slot, as one set (the test's
\* slot_attestations).
slot_attestations(network, slot) ==
  UNION { get_attestations(network[i], slot) : i \in 1..Len(network) }

\* setup_network: one Generator per node, each built from the same params
\* with its share of the validator range.  The shuffle and the chunking
\* decide which node holds which validator; `owner` stands for any such
\* outcome (node i holds the validators v with owner[v] = i), so every split
\* of the range over node_count nodes is a network.
setup_network(p, node_count, owner) ==
  [ i \in 1..node_count |->
      build(p, { v \in 0..(p.total_validators - 1) : owner[v] = i }).val ]


\* ------------------------------------------------------------- the stream
\* The instants of a slot the clock is read at: time is counted in thirds of
\* a slot since genesis, the granularity the emission schedule is stated in.
Phases == << "slot boundary", "one third", "two thirds" >>
TicksPerSlot == Len(Phases)
Phase(t) == Phases[(t % TicksPerSlot) + 1]

\* SlotClock::now at time t, for a clock whose genesis is slot 0 at time 0.
slot_clock_now(t) == ToU64(t \div TicksPerSlot)

\* Mutant: the time since the start of the slot instead of the time left in
\* it.
duration_since_slot_start(t) == t % TicksPerSlot

\* SlotClock::duration_to_next_slot at time t: up to the next slot boundary,
\* a whole slot when t is a boundary.
duration_to_next_slot(t) == TicksPerSlot - (t % TicksPerSlot)

\* tokio::time::sleep(duration) started at time t: the instant it expires.
sleep(t, duration) == t + duration

\* Polling the Sleep at time t: ready once its instant is reached.
sleep_is_ready(deadline, t) == t >= deadline

\* The validator a message is about.
msg_validator(m) ==
  CASE m.type = "BeaconBlock" -> m.proposer
    [] m.type = "AggregateAndProofAttestation" -> m.aggregator
    [] m.type = "Attestation" -> m.attester
    [] OTHER -> m.validator

\* get_msg as the Vec it is: the messages of one kind in the order the
\* HashSet of validators is iterated (g.order).
get_msg_vec(g, current_slot, kind) ==
  LET found == get_msg_messages(g, current_slot, kind)
      has(v) == \E m \in found : msg_validator(m) = v
      vals == SelectSeq(g.order, has)
  IN  [ i \in 1..Len(vals) |->
          CHOOSE m \in found : msg_validator(m) = vals[i] ]

\* Mutant: the message is taken from the back of the queue.
pop_back(queue) ==
  << queue[Len(queue)], SubSeq(queue, 1, Len(queue) - 1) >>

\* VecDeque::pop_front on a queue that holds messages:
\* << the message, the rest of the queue >>.
pop_front(queue) == << Head(queue), Tail(queue) >>

\* Mutant: only the aggregate kinds are queued.
aggregate_kinds ==
  << "AggregateAndProofAttestation", "SignedContributionAndProof" >>

\* The message kinds queue_slot_msgs goes through.
queued_kinds == MsgType

\* Generator::queue_slot_msgs: the queue extended kind by kind, up to the
\* first kind whose get_msg panics.  << the queue, whether it panicked >>.
RECURSIVE queue_slot_msgs_from(_, _, _, _)
queue_slot_msgs_from(g, queue, current_slot, i) ==
  IF i > Len(queued_kinds) THEN << queue, FALSE >>
  ELSE IF get_msg_panics(g, current_slot, queued_kinds[i])
    THEN << queue, TRUE >>
  ELSE queue_slot_msgs_from(
         g, queue \o get_msg_vec(g, current_slot, queued_kinds[i]),
         current_slot, i + 1)

\* Mutant: the slot before the current one is caught up first.
queue_slot_msgs_catch_up(g, queue, current_slot) ==
  LET missed == queue_slot_msgs_from(g, queue, U64SubSmall(current_slot, 1), 1)
  IN  IF missed[2] THEN missed
      ELSE queue_slot_msgs_from(g, missed[1], current_slot, 1)

queue_slot_msgs(g, queue, current_slot) ==
  queue_slot_msgs_from(g, queue, current_slot, 1)

\* The sequences without repetition of at most n members of S: the orders a
\* HashSet holding some of S can be iterated in.
RECURSIVE Orders(_, _)
Orders(S, n) ==
  IF n = 0 THEN { << >> }
  ELSE LET shorter == Orders(S, n - 1)
       IN  shorter \cup
           UNION { { Append(o, v) : v \in S \ { o[i] : i \in 1..Len(o) } } :
                   o \in { q \in shorter : Len(q) = n - 1 } }

\* ------------------------------------------------------------------ state
VARIABLES
  pc,           \* "builder", "params", "failed", then "network", "queried"
                \* (the network asked slot by slot) or "running", "panicked"
                \* (the Generator polled as a Stream)
  builder,      \* the GeneratorBuilder: its settings, Options of u64
  result,       \* what build_params returned
  nodes,        \* the Generators of the network
  test_slot,    \* the slot the network was last asked about
  msgs,         \* per message kind, what get_msgs returned for test_slot
  epoch_atts,   \* per slot of test_slot's epoch, its slot_attestations
  slot_generator,  \* the SlotGenerator
  slot_atts,    \* per slot of test_slot's epoch, its get_attestations
  now,          \* the time, in thirds of a slot since genesis
  generator,    \* the polled Generator: params, validators, their order
  queued_messages,  \* its queue
  next_slot,    \* the instant its Sleep expires
  polled,       \* what its last poll_next returned
  batch_at,     \* history: the time of its last queue_slot_msgs, -1 if none
  enqueued,     \* history: every message pushed on its queue, in order
  delivered     \* history: every message poll_next returned, in order

assign_vars ==
  << nodes, test_slot, msgs, epoch_atts, slot_generator, slot_atts >>
stream_vars ==
  << now, generator, queued_messages, next_slot, polled, batch_at, enqueued,
     delivered >>
vars == << pc, builder, result, assign_vars, stream_vars >>

Pending == [ ready |-> FALSE ]
Ready(item) == [ ready |-> TRUE, item |-> item ]

\* The values a builder setting can take: unset, or 0..max.
Setting(max) == { None } \cup { Some(ToU64(v)) : v \in 0..max }

\* A builder with no setting made (GeneratorBuilder::default()).
NoSetting ==
  [ slots_per_epoch |-> None, attestation_subnets |-> None,
    sync_subnet_size |-> None, sync_committee_subnets |-> None,
    target_aggregators |-> None, total_validators |-> None ]

\* The parameters build_params returned, read through the accessors of
\* GeneratorParams as the naturals the Generators compute with.
P == [ f \in DOMAIN result.val |-> U64Small(result.val[f]) ]

\* The slots the network is asked about: the first slots after genesis,
\* the slots around the start of a sync-committee period, and the last slots
\* of the u64 range.
Slots(p) ==
  { ToU64(n) : n \in 0..MaxSlotOffset }
  \cup { ToU64(EPOCHS_PER_SYNC_COMMITTEE_PERIOD * p.slots_per_epoch * k + n - 1) :
           k \in 1..MaxPeriod, n \in 0..MaxSlotOffset }
  \cup { U64MaxMinus(n) : n \in 0..MaxSlotOffset }

Init ==
  /\ pc = "builder"
  /\ builder = NoSetting
  /\ result = Err("")
  /\ nodes = << >>
  /\ test_slot = ToU64(0)
  /\ msgs = [ k \in MsgTypes |-> Returned({}) ]
  /\ epoch_atts = << >>
  /\ slot_generator = << >>
  /\ slot_atts = << >>
  /\ now = 0
  /\ generator = [ params |-> << >>, validators |-> {}, order |-> << >> ]
  /\ queued_messages = << >>
  /\ next_slot = 0
  /\ polled = Pending
  /\ batch_at = -1
  /\ enqueued = << >>
  /\ delivered = << >>

\* The builder is given its settings and build_params is called: either
\* every setting is given a value, or only total_validators is (the rest
\* are the defaults), or nothing is.
BuildParams ==
  /\ pc = "builder"
  /\ \E spe \in Setting(MaxSlotsPerEpoch), att \in Setting(MaxSubnets),
        sss \in Setting(MaxSubnetSize), scs \in Setting(MaxSubnets),
        agg \in Setting(MaxAggregators), tv \in Setting(MaxValidators) :
       /\ \/ spe.some /\ att.some /\ sss.some /\ scs.some /\ agg.some /\ tv.some
          \/ ~spe.some /\ ~att.some /\ ~sss.some /\ ~scs.some /\ ~agg.some
       /\ builder' = [ slots_per_epoch |-> spe,
                       attestation_subnets |-> att,
                       sync_subnet_size |-> sss,
                       sync_committee_subnets |-> scs,
                       target_aggregators |-> agg,
                       total_validators |-> tv ]
  /\ result' = build_params(builder')
  /\ pc' = IF result'.ok THEN "params" ELSE "failed"
  /\ UNCHANGED << assign_vars, stream_vars >>

\* The validator range is split over the nodes of a network.  A network is
\* a list of Generators that share nothing, so the order of the nodes is
\* immaterial and validator 0 is given to node 1.
SetupNetwork ==
  /\ pc = "params"
  /\ \E node_count \in 1..MaxNodes :
       \E owner \in [ 0..(P.total_validators - 1) -> 1..node_count ] :
         /\ owner[0] = 1
         /\ nodes' = setup_network(P, node_count, owner)
  /\ pc' = "network"
  /\ UNCHANGED << builder, result, test_slot, msgs, epoch_atts, slot_generator,
                  slot_atts, stream_vars >>

\* Every node is asked for the messages of a slot, kind by kind, and for the
\* attestations of each slot of that slot's epoch.
GetMsgs ==
  /\ pc = "network"
  /\ \E s \in Slots(P) :
       /\ test_slot' = s
       /\ msgs' = [ k \in MsgTypes |-> get_msgs(nodes, k, s) ]
       /\ epoch_atts' =
            LET slots == slot_iter(s, P.slots_per_epoch)
            IN  [ i \in 1..Len(slots) |-> slot_attestations(nodes, slots[i]) ]
  /\ pc' = "queried"
  /\ UNCHANGED << builder, result, nodes, slot_generator, slot_atts,
                  stream_vars >>

NextAssign == BuildParams \/ SetupNetwork \/ GetMsgs

SpecAssign == Init /\ [][NextAssign]_vars

\* ------------------------------------------- the builder, over 64 bits
\* The values a setting is given when the whole 64-bit range is tried:
\* unset, the small values, 2^32, 2^63 and usize::MAX.
WideSettings ==
  { None }
  \cup { Some(ToU64(v)) : v \in 0..MaxWideSetting }
  \cup { Some(<< 0, 0, 1, 0 >>), Some(<< 0, 0, 0, Digit \div 2 >>),
         Some(U64MaxMinus(0)) }

\* The builder is given its settings and build_params is called.
BuildWideParams ==
  /\ pc = "builder"
  /\ builder' \in [ DOMAIN NoSetting -> WideSettings ]
  /\ result' = build_params(builder')
  /\ pc' = IF result'.ok THEN "wide params" ELSE "failed"
  /\ UNCHANGED << assign_vars, stream_vars >>

NextBuilder == BuildWideParams

SpecBuilder == Init /\ [][NextBuilder]_vars

\* ------------------------------------------------- the default settings
\* The validator counts tried with the default settings: multiples of the
\* default sync-committee size, and a few validators more.
DefaultValidators ==
  { DEFAULT_SYNC_COMMITTEE_SIZE * k + d : k \in 1..MaxCommittees, d \in 0..MaxExcess }

\* Only total_validators is set on the builder and build_params is called.
BuildDefaultParams ==
  /\ pc = "builder"
  /\ \E tv \in DefaultValidators :
       builder' = [ NoSetting EXCEPT !.total_validators = Some(ToU64(tv)) ]
  /\ result' = build_params(builder')
  /\ pc' = IF result'.ok THEN "default params" ELSE "failed"
  /\ UNCHANGED << assign_vars, stream_vars >>

\* GeneratorParams::build with the whole validator range: a network of one
\* Generator.
BuildWhole ==
  /\ pc = "default params"
  /\ nodes' = << build(P, 0..(P.total_validators - 1)).val >>
  /\ pc' = "network"
  /\ UNCHANGED << builder, result, test_slot, msgs, epoch_atts, slot_generator,
                  slot_atts, stream_vars >>

NextDefaults == BuildDefaultParams \/ BuildWhole \/ GetMsgs

SpecDefaults == Init /\ [][NextDefaults]_vars

\* ------------------------------------------------------ the SlotGenerator
\* SlotGenerator::new with positive parameters that leave every attestation
\* subnet its target aggregators.
NewSlotGenerator ==
  /\ pc = "builder"
  /\ \E spe \in 1..MaxRelativeSlots, att \in 1..MaxSubnets,
        sss \in 1..MaxSubnetSize, scs \in 1..MaxSubnets,
        agg \in 1..MaxAggregators, tv \in 1..MaxValidators :
       /\ agg * att <= tv
       /\ slot_generator' = SlotGenerator_new(spe, att, sss, scs, agg, tv)
  /\ pc' = "slot generator"
  /\ UNCHANGED << builder, result, nodes, test_slot, msgs, epoch_atts, slot_atts,
                  stream_vars >>

\* SlotGenerator::get_attestations is asked, with the whole validator
\* range, for each slot of the epoch of a slot.
GetEpochAttestations ==
  /\ pc = "slot generator"
  /\ \E s \in Slots(slot_generator) :
       /\ test_slot' = s
       /\ slot_atts' =
            LET slots == slot_iter(s, slot_generator.slots_per_epoch)
            IN  [ i \in 1..Len(slots) |->
                    SlotGenerator_get_attestations(
                      slot_generator, slots[i],
                      0..(slot_generator.total_validators - 1)) ]
  /\ pc' = "slot attestations"
  /\ UNCHANGED << builder, result, nodes, msgs, epoch_atts, slot_generator,
                  stream_vars >>

NextSlotGenerator == NewSlotGenerator \/ GetEpochAttestations

SpecSlotGenerator == Init /\ [][NextSlotGenerator]_vars

\* ------------------------------------------------------- the polled stream
\* The settings the polled Generator's network is built with.
BuildStreamParams ==
  /\ pc = "builder"
  /\ \E spe \in { 1, 2 }, att \in { 1, 2 }, agg \in { 0, 1 } :
       builder' = [ slots_per_epoch |-> Some(ToU64(spe)),
                    attestation_subnets |-> Some(ToU64(att)),
                    sync_subnet_size |-> Some(ToU64(1)),
                    sync_committee_subnets |-> Some(ToU64(1)),
                    target_aggregators |-> Some(ToU64(agg)),
                    total_validators |-> Some(ToU64(StreamValidators)) ]
  /\ result' = build_params(builder')
  /\ pc' = IF result'.ok THEN "params" ELSE "failed"
  /\ UNCHANGED << assign_vars, stream_vars >>

\* GeneratorParams::build at the present time: the Generator holds some
\* validators, its queue is empty and its Sleep runs to the next slot.
Build ==
  /\ pc = "params"
  /\ \E order \in Orders(0..(P.total_validators - 1), MaxHeld) :
       LET built == build(P, { order[i] : i \in 1..Len(order) })
       IN  /\ built.ok
           /\ generator' = [ params |-> built.val.params,
                             validators |-> built.val.validators,
                             order |-> order ]
  /\ queued_messages' = << >>
  /\ next_slot' = sleep(now, duration_to_next_slot(now))
  /\ pc' = "running"
  /\ UNCHANGED << builder, result, assign_vars, now, polled, batch_at, enqueued,
                  delivered >>

\* A third of a slot passes.
Tick ==
  /\ now < MaxTime
  /\ now' = now + 1
  /\ UNCHANGED << pc, builder, result, assign_vars, generator, queued_messages,
                  next_slot, polled, batch_at, enqueued, delivered >>

\* Stream::poll_next with messages queued: the head is returned.
PollQueued ==
  /\ pc = "running"
  /\ queued_messages # << >>
  /\ LET popped == pop_front(queued_messages)
     IN  /\ polled' = Ready(popped[1])
         /\ queued_messages' = popped[2]
         /\ delivered' = Append(delivered, popped[1])
  /\ UNCHANGED << pc, builder, result, assign_vars, now, generator, next_slot,
                  batch_at, enqueued >>

\* Stream::poll_next with an empty queue and the Sleep expired: the messages
\* of the clock's slot are queued, the Sleep is set to the next slot and the
\* poll returns Pending; a panic of get_msg ends the Generator.
PollSlot ==
  /\ pc = "running"
  /\ queued_messages = << >>
  /\ sleep_is_ready(next_slot, now)
  /\ LET current_slot == slot_clock_now(now)
         queued == queue_slot_msgs(generator, queued_messages, current_slot)
     IN  /\ queued_messages' = queued[1]
         /\ enqueued' = enqueued \o queued[1]
         /\ batch_at' = now
         /\ IF queued[2]
            THEN /\ pc' = "panicked"
                 /\ UNCHANGED << next_slot, polled >>
            ELSE /\ pc' = "running"
                 /\ next_slot' = sleep(now, duration_to_next_slot(now))
                 /\ polled' = Pending
  /\ UNCHANGED << builder, result, assign_vars, now, generator, delivered >>

\* Stream::poll_next with an empty queue and the Sleep still running.
PollPending ==
  /\ pc = "running"
  /\ queued_messages = << >>
  /\ ~sleep_is_ready(next_slot, now)
  /\ polled' = Pending
  /\ UNCHANGED << pc, builder, result, assign_vars, now, generator, queued_messages,
                  next_slot, batch_at, enqueued, delivered >>

poll_next == PollQueued \/ PollSlot \/ PollPending

Next == BuildStreamParams \/ Build \/ Tick \/ poll_next

Spec == Init /\ [][Next]_vars

\* ----------------------------------------------------------------- claims
\* The validator range, once params are built.
ValidatorRange == 0..(P.total_validators - 1)

\* The single Generator that holds the whole validator range.
Whole == build(P, ValidatorRange).val

\* The validators attesting in the i-th slot of test_slot's epoch.
Attesters(i) == { a[1] : a \in epoch_atts[i] }

\* test_slot's epoch has all its slots_per_epoch slots.
FullEpoch == Len(epoch_atts) = P.slots_per_epoch

\* Every validator attests in exactly one slot of the epoch, on one subnet.
OncePerEpoch ==
  \A v \in ValidatorRange :
    /\ Cardinality({ i \in 1..Len(epoch_atts) : v \in Attesters(i) }) = 1
    /\ \A i, j \in 1..Len(epoch_atts) :
         \A a \in epoch_atts[i], b \in epoch_atts[j] :
           (a[1] = v /\ b[1] = v) => a[2] = b[2]

\* No val_id + slot wraps around 2^64 for the slots up to `slot`.
NoSlotWrap(slot) ==
  ~overflowing_add(slot, ToU64(P.total_validators - 1))[2]

\* The six parameters are positive (what C4 expects of every built set).
AllSixPositive ==
  /\ P.slots_per_epoch > 0
  /\ P.attestation_subnets > 0
  /\ P.sync_subnet_size > 0
  /\ P.sync_committee_subnets > 0
  /\ P.target_aggregators > 0
  /\ P.total_validators > 0

OnCommittee(kind, c) == { m \in msgs[kind].msgs : m.committee = c }

\* No val_id + epoch wraps around 2^64 for the epoch of test_slot.
NoEpochWrap ==
  ~overflowing_add(SlotEpoch(test_slot, P.slots_per_epoch),
                   ToU64(P.total_validators - 1))[2]

\* C2, for the parameter sets whose six values are positive and
\* the slots where no sum wraps: every attestation subnet has exactly
\* target_aggregators AggregateAndProofAttestation messages, in every slot
\* of every epoch.
C2_AggregatorsPerSubnet ==
  (pc = "queried" /\ AllSixPositive /\ NoEpochWrap) =>
    \A s \in 0..(P.attestation_subnets - 1) :
      Cardinality(OnCommittee("AggregateAndProofAttestation", s))
        = P.target_aggregators

\* C3, for the parameter sets whose six values are positive and
\* the slots where no sum wraps: every sync-committee subnet has exactly
\* target_aggregators SignedContributionAndProof messages.
C3_SyncAggregatorsPerSubnet ==
  (pc = "queried" /\ AllSixPositive /\ NoSlotWrap(test_slot)) =>
    \A c \in 0..(P.sync_committee_subnets - 1) :
      Cardinality(OnCommittee("SignedContributionAndProof", c))
        = P.target_aggregators

\* C4: no parameter set with a zero among its six values is
\* successfully built.
C4_AllSixPositive == result.ok => AllSixPositive

\* C5: for Generators built through build_params and build,
\* get_msg completes for every slot and every message kind: no division or
\* remainder by zero.
C5_GetMsgNeverPanics ==
  pc = "queried" => \A k \in MsgTypes : ~msgs[k].panicked

\* The attesters of test_slot over the whole range number within 1 of
\* floor(total_validators / slots_per_epoch).
AttesterCountWithinOne ==
  LET count == Cardinality({ m.attester : m \in msgs["Attestation"].msgs })
      expected == P.total_validators \div P.slots_per_epoch
  IN  count - expected \in { -1, 0, 1 }

\* C7: for every accepted parameter set (here those whose six values are
\* positive) and every slot, the attesters of the slot over the
\* whole range number within 1 of floor(total_validators / slots_per_epoch).
C7_AttesterCount_EverySlot ==
  (pc = "queried" /\ AllSixPositive) => AttesterCountWithinOne

\* The sync-committee period of a slot.
PeriodOf(slot) == sync_committee_period(SlotEpoch(slot, P.slots_per_epoch))

\* C8: for every accepted parameter set and every slot, get_msg
\* returns the SyncCommitteeMessage messages, they are the same for all
\* slots of one sync-committee period, and every sync-committee subnet
\* holds exactly sync_subnet_size of them.
C8_SyncCommitteeMembers ==
  pc = "queried" =>
    /\ ~msgs["SyncCommitteeMessage"].panicked
    /\ \A s \in Slots(P) :
         PeriodOf(s) = PeriodOf(test_slot) =>
           get_msgs(nodes, "SyncCommitteeMessage", s)
             = msgs["SyncCommitteeMessage"]
    /\ \A c \in 0..(P.sync_committee_subnets - 1) :
         Cardinality(OnCommittee("SyncCommitteeMessage", c))
           = P.sync_subnet_size

\* C9: for every accepted parameter set (here those whose six values are
\* positive) and every slot, get_msg returns exactly
\* target_aggregators * attestation_subnets AggregateAndProofAttestation
\* messages, with distinct aggregator ids.
C9_AggregateCount ==
  (pc = "queried" /\ AllSixPositive) =>
    LET aggs == msgs["AggregateAndProofAttestation"]
    IN  /\ ~aggs.panicked
        /\ Cardinality(aggs.msgs)
             = P.target_aggregators * P.attestation_subnets
        /\ Cardinality({ m.aggregator : m \in aggs.msgs })
             = Cardinality(aggs.msgs)

\* C10: for every accepted parameter set, every slot, every message kind
\* and every split of the validator range over the Generators of a network,
\* the union of what the Generators return is what a single Generator
\* holding the whole range returns (a panic of a Generator being a panic of
\* the whole call on either side).
C10_Partition ==
  pc = "queried" =>
    \A k \in MsgTypes : msgs[k] = get_msg(Whole, test_slot, k)

\* C10 witness: two nodes, both holding validators, and every kind of
\* message returned for the slot.
C10_Witness ==
  /\ pc = "queried"
  /\ Len(nodes) = 2
  /\ nodes[1].validators # {} /\ nodes[2].validators # {}
  /\ \A k \in MsgTypes : ~msgs[k].panicked /\ msgs[k].msgs # {}
  /\ \E k \in MsgTypes :
       /\ get_msg(nodes[1], test_slot, k).msgs # {}
       /\ get_msg(nodes[2], test_slot, k).msgs # {}

\* What the queue holds, as a set, and the messages of a set of kinds for
\* the slot the clock reports.
Queued == { queued_messages[i] : i \in 1..Len(queued_messages) }
MessagesNow(kinds) ==
  UNION { get_msg(generator, slot_clock_now(now), k).msgs : k \in kinds }

\* The queue holds its messages kind by kind, in the order of MsgType.
KindOrder(queue) ==
  \A i, j \in 1..Len(queue) :
    i < j => \E a, b \in 1..Len(MsgType) :
               a <= b /\ queue[i].type = MsgType[a] /\ queue[j].type = MsgType[b]

AggregateKinds == { "AggregateAndProofAttestation", "SignedContributionAndProof" }

\* C6 as stated: a pull that finds the queue empty enqueues all five kinds
\* at the slot boundary (when the timer has expired), only the
\* AggregateAndProofAttestation and SignedContributionAndProof messages of
\* the current slot at two thirds of the slot (unless a batch was already
\* computed at that instant), and nothing at one third.
C6_ThreeTickSchedule ==
  [][ (poll_next /\ queued_messages = << >> /\ pc' = "running") =>
        CASE Phase(now) = "slot boundary" ->
               sleep_is_ready(next_slot, now) =>
                 { queued_messages'[i] : i \in 1..Len(queued_messages') }
                   = MessagesNow(MsgTypes)
          [] Phase(now) = "two thirds" ->
               batch_at # now =>
                 { queued_messages'[i] : i \in 1..Len(queued_messages') }
                   = MessagesNow(AggregateKinds)
          [] Phase(now) = "one third" -> queued_messages' = << >> ]_vars

\* C6 amended: there is one enqueue instant per slot and no aggregates-only
\* batch.  A pull that finds the queue empty and the slot timer expired
\* enqueues all five kinds for the slot the clock then reports, in the order
\* of MsgType, and arms the timer for the next slot boundary (if get_msg
\* panics, a prefix of that batch is left); every other pull, and every
\* other step, enqueues nothing, whatever the third of the slot.
C6_OneBatchPerSlot ==
  [][ IF poll_next /\ queued_messages = << >> /\ sleep_is_ready(next_slot, now)
      THEN /\ KindOrder(queued_messages')
           /\ IF pc' = "running"
              THEN /\ { queued_messages'[i] : i \in 1..Len(queued_messages') }
                        = MessagesNow(MsgTypes)
                   /\ Len(queued_messages')
                        = Cardinality(MessagesNow(MsgTypes))
                   /\ next_slot' > now
                   /\ Phase(next_slot') = "slot boundary"
                   /\ next_slot' - now <= TicksPerSlot
              ELSE { queued_messages'[i] : i \in 1..Len(queued_messages') }
                     \subseteq MessagesNow(MsgTypes)
      ELSE /\ Len(queued_messages') <= Len(queued_messages)
           /\ next_slot' = next_slot \/ pc = "params" ]_vars

\* C6 witness: a batch with all five kinds of message has just been queued
\* at a slot boundary.
C6_Witness ==
  /\ pc = "running"
  /\ batch_at = now
  /\ Phase(now) = "slot boundary"
  /\ { m.type : m \in Queued } = MsgTypes
  /\ polled = Pending

\* The batch queue_slot_msgs computes at the present time on an empty queue.
BatchNow == queue_slot_msgs(generator, << >>, slot_clock_now(now))[1]

\* C11: a pull that finds the queue empty does not complete (poll_next
\* returns Pending, never a message and never the end of the sequence) and
\* the Generator stays suspended; when the timer has expired the batch of
\* the tick is enqueued and the timer is re-armed for the next tick, also
\* when the batch is empty; a pull that finds messages queued yields the
\* first of them, so the pull completes with the first message of the batch.
C11_PullSuspendsUntilBatch ==
  [][ poll_next =>
        IF queued_messages = << >>
        THEN /\ polled' = Pending
             /\ pc' = "running"
             /\ IF sleep_is_ready(next_slot, now)
                THEN /\ queued_messages' = BatchNow
                     /\ next_slot' = sleep(now, duration_to_next_slot(now))
                     /\ ~sleep_is_ready(next_slot', now)
                ELSE queued_messages' = << >> /\ next_slot' = next_slot
        ELSE polled' = Ready(Head(queued_messages)) ]_vars

\* A pull observes a tick: it finds the queue empty and the timer expired.
ObservedTick ==
  poll_next /\ queued_messages = << >> /\ sleep_is_ready(next_slot, now)

\* The slot the clock reports at time t, as a number.
SlotAt(t) == t \div TicksPerSlot

\* C12: a pull that observes a tick enqueues one batch, the messages of the
\* slot the clock reports at that moment and nothing of the slots that
\* elapsed unobserved (all five kinds; those before the failing kind when
\* get_msg panics), and that slot is later than the slot of the batch
\* before; no other step computes a batch.
C12_OneBatchPerObservedTick ==
  [][ IF ObservedTick
      THEN /\ enqueued' = enqueued \o queued_messages'
           /\ { queued_messages'[i] : i \in 1..Len(queued_messages') }
                \subseteq MessagesNow(MsgTypes)
           /\ Len(queued_messages') <= Cardinality(MessagesNow(MsgTypes))
           /\ pc' = "running" =>
                Len(queued_messages') = Cardinality(MessagesNow(MsgTypes))
           /\ batch_at' = now
           /\ batch_at # -1 => SlotAt(now) > SlotAt(batch_at)
      ELSE enqueued' = enqueued /\ batch_at' = batch_at ]_vars

\* C12 witness: the batch of an earlier slot was delivered, the next tick
\* was observed late, after a third of the slot, and its batch is queued.
C12_Witness ==
  /\ pc = "running"
  /\ batch_at = now
  /\ Phase(now) # "slot boundary"
  /\ delivered # << >>
  /\ queued_messages # << >>
  /\ Len(enqueued) = Len(delivered) + Len(queued_messages)

\* C13: a pull that finds messages queued returns the head of the queue and
\* removes it, leaves the timer alone and enqueues nothing, also when the
\* timer has expired; what was delivered followed by what is queued is what
\* was enqueued, in that order, so nothing is delivered twice, skipped or
\* reordered; no other step delivers.
C13_FifoDelivery ==
  [][ /\ delivered' \o queued_messages' = enqueued'
      /\ IF poll_next /\ queued_messages # << >>
         THEN /\ polled' = Ready(Head(queued_messages))
              /\ queued_messages' = Tail(queued_messages)
              /\ delivered' = Append(delivered, Head(queued_messages))
              /\ enqueued' = enqueued
              /\ next_slot' = next_slot
              /\ batch_at' = batch_at
         ELSE delivered' = delivered ]_vars

\* C13 witness: two different messages were delivered, more are queued, and
\* the last pull returned a message although the timer had expired.
C13_Witness ==
  /\ pc = "running"
  /\ Len(delivered) >= 2
  /\ delivered[1] # delivered[2]
  /\ queued_messages # << >>
  /\ sleep_is_ready(next_slot, now)
  /\ polled = Ready(delivered[Len(delivered)])

\* The messages of every kind for the slot the clock reports at time t.
MessagesAt(t) ==
  UNION { get_msg(generator, slot_clock_now(t), k).msgs : k \in MsgTypes }

\* The queue holds messages of the slot of the last batch only, no more
\* than the batch of that slot has.
OneSlotQueue ==
  IF batch_at = -1 THEN queued_messages = << >>
  ELSE /\ Queued \subseteq MessagesAt(batch_at)
       /\ Len(queued_messages) <= Cardinality(MessagesAt(batch_at))

\* C18: the queue grows only in a pull that found it empty, and in every
\* state it holds messages of one slot only, at most as many as the batch
\* of that slot.
C18_QueueWithinOneBatch ==
  /\ []OneSlotQueue
  /\ [][ Len(queued_messages') > Len(queued_messages) =>
           (poll_next /\ queued_messages = << >>) ]_vars

\* C18 witness: a slow consumer: the whole batch of a slot is still queued
\* after the slot has passed and the timer has expired again.
C18_Witness ==
  /\ pc = "running"
  /\ batch_at # -1
  /\ SlotAt(now) > SlotAt(batch_at)
  /\ sleep_is_ready(next_slot, now)
  /\ Len(queued_messages) >= 2
  /\ Len(queued_messages) = Cardinality(MessagesAt(batch_at))

\* The value build_params uses for each setting: the one the builder was
\* given, or the default.
Supplied ==
  [ slots_per_epoch |->
      unwrap_or(builder.slots_per_epoch, ToU64(DEFAULT_SLOTS_PER_EPOCH)),
    attestation_subnets |->
      unwrap_or(builder.attestation_subnets,
                ToU64(DEFAULT_ATTESTATION_SUBNETS)),
    sync_subnet_size |->
      unwrap_or(builder.sync_subnet_size, ToU64(DEFAULT_SYNC_COMMITTEE_SIZE)),
    sync_committee_subnets |->
      unwrap_or(builder.sync_committee_subnets,
                ToU64(DEFAULT_SYNC_COMMITTEE_SUBNETS)),
    target_aggregators |->
      unwrap_or(builder.target_aggregators, ToU64(DEFAULT_TARGET_AGGREGATORS)),
    total_validators |-> builder.total_validators.val ]

\* a * b, as a product of naturals, is at most limit.
ProductWithin(a, b, limit) ==
  LET product == U64Product(a, b)
  IN  ~product.overflows /\ ~U64Gt(product.low, limit)

\* C14: when build_params succeeds, the three products sync_subnet_size *
\* sync_committee_subnets, target_aggregators * attestation_subnets and
\* target_aggregators * sync_committee_subnets, taken without wraparound,
\* are each at most total_validators (so a product beyond 64 bits is a
\* failure), and the built parameters are exactly the supplied values.
C14_ProductsChecked ==
  (pc \in { "wide params", "failed" } /\ result.ok) =>
    /\ ProductWithin(Supplied.sync_subnet_size,
                     Supplied.sync_committee_subnets,
                     Supplied.total_validators)
    /\ ProductWithin(Supplied.target_aggregators,
                     Supplied.attestation_subnets,
                     Supplied.total_validators)
    /\ ProductWithin(Supplied.target_aggregators,
                     Supplied.sync_committee_subnets,
                     Supplied.total_validators)
    /\ result.val = Supplied

\* C14 witness: a parameter set built from values beyond 32 bits, whose
\* products are compared at full width, with a default among them.
C14_Witness ==
  /\ pc = "wide params"
  /\ result.ok
  /\ result.val.total_validators = U64MaxMinus(0)
  /\ result.val.sync_subnet_size = << 0, 0, 1, 0 >>
  /\ result.val.sync_committee_subnets = ToU64(1)
  /\ result.val.attestation_subnets = ToU64(1)
  /\ result.val.target_aggregators = << 0, 0, 0, Digit \div 2 >>
  /\ ~builder.slots_per_epoch.some

\* v is slot mod total_validators for test_slot: it is below
\* total_validators and test_slot - v is a multiple of total_validators.
IsSlotModValidators(v) ==
  /\ v < P.total_validators
  /\ ~U64Gt(ToU64(v), test_slot)
  /\ U64Mod(U64SubSmall(test_slot, v), P.total_validators) = 0

\* C15: for every accepted parameter set, every slot and every network
\* whose Generators split the validator range, exactly one BeaconBlock is
\* produced for the slot, its proposer is slot mod total_validators, the
\* Generator that holds that validator produces it and every other
\* Generator produces none; SlotGenerator::get_blocks names the same
\* proposer for the same validator sets.
C15_OneBlockPerSlot ==
  pc = "queried" =>
    /\ ~msgs["BeaconBlock"].panicked
    /\ \E v \in ValidatorRange :
         LET block == [ type |-> "BeaconBlock", proposer |-> v ]
             sg == SlotGenerator_new(P.slots_per_epoch, P.attestation_subnets,
                                     P.sync_subnet_size,
                                     P.sync_committee_subnets,
                                     P.target_aggregators, P.total_validators)
         IN  /\ msgs["BeaconBlock"].msgs = { block }
             /\ IsSlotModValidators(v)
             /\ \A i \in 1..Len(nodes) :
                  /\ get_msg(nodes[i], test_slot, "BeaconBlock")
                       = Returned(IF v \in nodes[i].validators
                                  THEN { block } ELSE {})
                  /\ get_blocks(sg, test_slot, nodes[i].validators)
                       = IF v \in nodes[i].validators THEN Some(v) ELSE None

\* C15 witness: a slot at the top of the u64 range, in a network of two
\* Generators where the second holds the proposer and the first does not.
C15_Witness ==
  /\ pc = "queried"
  /\ Len(nodes) = 2
  /\ test_slot[4] = Digit - 1
  /\ P.total_validators >= 3
  /\ \E m \in msgs["BeaconBlock"].msgs :
       /\ m.proposer \in nodes[2].validators
       /\ m.proposer # 0
  /\ get_msg(nodes[1], test_slot, "BeaconBlock").msgs = {}

\* Only total_validators was set on the builder.
OnlyTotalValidators ==
  /\ builder.total_validators.some
  /\ \A f \in DOMAIN builder \ { "total_validators" } : ~builder[f].some

\* C16: when only total_validators is set on the builder, the built
\* parameters are 64 attestation subnets, 16 target aggregators, 32 slots per
\* epoch and a sync committee of 512 validators in total over 4 subnets, and
\* get_msg over the whole validator range yields 512 SyncCommitteeMessage
\* messages for a slot.
C16_DefaultSyncCommittee ==
  (OnlyTotalValidators /\ result.ok) =>
    /\ P.attestation_subnets = DEFAULT_ATTESTATION_SUBNETS
    /\ P.target_aggregators = DEFAULT_TARGET_AGGREGATORS
    /\ P.slots_per_epoch = DEFAULT_SLOTS_PER_EPOCH
    /\ P.sync_committee_subnets = DEFAULT_SYNC_COMMITTEE_SUBNETS
    /\ sync_committee_size(P) = DEFAULT_SYNC_COMMITTEE_SIZE
    /\ pc = "queried" =>
         /\ ~msgs["SyncCommitteeMessage"].panicked
         /\ Cardinality(msgs["SyncCommitteeMessage"].msgs)
              = DEFAULT_SYNC_COMMITTEE_SIZE

\* The number of attesters SlotGenerator::get_attestations names for the
\* i-th slot of the epoch.
SlotAttesterCount(i) == Cardinality(slot_atts[i])

\* C17: for SlotGenerator::get_attestations over the whole validator range,
\* with positive parameters and target_aggregators * attestation_subnets <=
\* total_validators, whether or not gcd(attestation_subnets,
\* slots_per_epoch) is 1, the attester counts of any two slots of the same
\* epoch differ by at most 1.
C17_SlotGeneratorCountsWithinOne ==
  pc = "slot attestations" =>
    \A i, j \in 1..Len(slot_atts) :
      SlotAttesterCount(i) - SlotAttesterCount(j) <= 1

====
